---- MODULE Spec2Model ----
(***************************************************************************)
(* A model of WebSocketClient (App/modules/lib/client/websocketClient.js): *)
(* the reconnecting real-time client.  The manager is single-threaded and  *)
(* event driven: every action below is one public operation called by the  *)
(* application, or one callback invoked by the host (a transport event, a  *)
(* timeout, an interval tick), run to completion.                          *)
(*                                                                         *)
(* The host's WebSocket objects are the environment.  Each transport the   *)
(* manager creates keeps the four handlers attached at creation; they are  *)
(* closures over the manager, not over the transport, so a transport the   *)
(* manager no longer holds still delivers its events to the manager.       *)
(***************************************************************************)
EXTENDS Integers, Sequences, FiniteSets, TLC

\* ---------------------------------------------------------------- bounds
MaxTransports == 3      \* transports created in one run
MaxCalls == 2           \* send/subscribe/unsubscribe calls in one run
MaxLifeCalls == 1       \* send calls in one run of Spec
MaxSendTransports == 2  \* transports created in one run of SpecSend
MaxPings == 2           \* heartbeat pings written in one run
MaxTimers == 2          \* host timer ids of each kind
MaxRegs == 3            \* on() calls in one run
MaxListenTransports == 1 \* transports created in one run of SpecListen
MaxRetryTransports == 4 \* transports created in one run of SpecRetry
MaxHookCalls == 3       \* subscribe and unsubscribe calls of the hooks in one run

\* ------------------------------------------------------- program constants
MaxReconnectAttempts == 2
ReconnectDelay == 5000
NormalClosure == 1000
NoTransport == 0
NoTimer == 0

Transports == 1..MaxRetryTransports
TimerIds == 1..MaxTimers
\* Close codes a close event can carry: normal, going away, abnormal.  A
\* transport whose connection was never established closes with the last.
CloseCodes == {1000, 1001, 1006}
ClosableWith(t, est) == IF t \in est THEN CloseCodes ELSE {1006}

\* -------------------------------------------------------------- JS values
\* A JavaScript value is a pair <<tag, text>>; an object that came off the
\* wire is <<"object", type, data>>, a key that is absent reads as Undefined.
Undefined == <<"undef", "">>
Null == <<"null", "">>
Str(s) == <<"str", s>>
Num(s) == <<"num", s>>

Truthy(v) ==
    /\ v[1] \notin {"undef", "null"}
    /\ v \notin {Num("0"), Str(""), <<"bool", "false">>}

\* JSON.stringify of an object literal, given as its <<key, value>> pairs in
\* insertion order: a key whose value is undefined is left out.
Stringify(message) == SelectSeq(message, LAMBDA kv : kv[2] # Undefined)

PingMessage == << <<"type", Str("ping")>> >>
DataMessage(data) == << <<"type", Str("data")>>, <<"data", data>> >>
SubscribeMessage(topic, filter, interval) ==
    << <<"type", Str("subscribe")>>, <<"topic", topic>>,
       <<"filter", filter>>, <<"interval", interval>> >>
UnsubscribeMessage(topic, filter) ==
    << <<"type", Str("unsubscribe")>>, <<"topic", topic>>, <<"filter", filter>> >>

\* The values the application passes in.
SendData == {Num("1")}
LifeData == {Num("1")}
Topics == {Str("sensor_data")}
Filters == {Null}
Intervals == {Num("5000")}

\* The events the application listens to, and its callbacks.
ListenEvents == {"disconnected", "message", "sensor_data_update"}
Callbacks == {"cb1", "cb2"}
\* The callbacks that throw whenever they are called.
ThrowingCallbacks == {"cb2"}

\* What arrives on a transport: text that does not parse, or the JSON text of
\* null, of a number, or of an object with any of the types and data below.
InboundTypes ==
    {Str("sensor_data_update"), Str("message"), Str("disconnected"), Str(""), Undefined}
InboundData ==
    {Undefined, Null, Num("0"), Str(""), <<"bool", "false">>, <<"obj", "temp:28.5">>}
Payloads ==
    {Null, Num("5")} \cup {<<"object", ty, d>> : ty \in InboundTypes, d \in InboundData}
RawFrames == {<<"text", Str("not json")>>} \cup {<<"json", p>> : p \in Payloads}

\* The useRealtime consumers mounted by the application, the topics they are
\* mounted with (filter and interval left at their defaults), and a consumer
\* that is not mounted.
Consumers == {"1", "2"}
HookTopics == {"sensor_data", "tasks"}
HookFilter == Null
HookInterval == Num("30000")
Unmounted == [mounted |-> FALSE, topic |-> "", data |-> Null, connected |-> FALSE,
              error |-> Null]
\* What the server sends to the hooks: updates and initial snapshots, each
\* with the data of one topic.
HookFrames ==
    {<<"json", <<"object", Str(ty), <<"obj", topic>> >> >> :
        ty \in {"sensor_data_update", "tasks_update", "initial_data"}, topic \in HookTopics}

VARIABLES
    ctorThrows,         \* config: new WebSocket(config.url) throws
    ws,                 \* this.ws: the current transport, or NoTransport
    readyState,         \* readyState of every transport created so far
    established,        \* the transports whose connection was established
    connected,          \* this.connected
    reconnectAttempts,  \* this.reconnectAttempts
    reconnectTimer,     \* this.reconnectTimer: a timeout id, or NoTimer
    heartbeatTimer,     \* this.heartbeatTimer: an interval id, or NoTimer
    timeouts,           \* the host's pending timeouts
    intervals,          \* the host's running intervals
    subscriptions,      \* this.subscriptions
    eventListeners,     \* this.eventListeners: event -> callbacks, in order
    messageQueue,       \* this.messageQueue
    written,            \* what the transports were given: <<transport, frame>>
    lastOp,             \* the operation or callback that ran last
    emitted,            \* the events it emitted: <<event, data>>
    invoked,            \* the listener calls it made: <<event, callback, data>>
    view,               \* what a listener of the close event's 'disconnected' reads
    threw,              \* the exception it let escape, or "none"
    nCalls,             \* history: send-path calls made
    nPings,             \* history: pings written
    nRegs,              \* history: on() calls made
    cleared,            \* history: calls whose frame cleanup() discarded
    shutdown,           \* history: disconnect() ran and connect() was not called since
    closures,           \* history: unintentional closures in a row since the last open
    failedCount,        \* history: reconnect_failed events since the last open
    scheduled,          \* history: reconnect timers started since the last open
    episodeCut,         \* history: disconnect() ran since the last open
    openedFrom,         \* history: the attempt counter the last open found
    closeAsked,         \* history: the transports disconnect() called close(1000) on, until their close event
    gaveUp,             \* history of SpecRetry: retries reached the ceiling and a closure was left without one
    autoConnects,       \* history of SpecRetry: connection attempts made by timers since an open, a normal closure, connect() or disconnect()
    wsClientInstance,   \* the module's wsClientInstance holds a manager
    managers,           \* history: managers whose constructor returned
    hookState,          \* per useRealtime consumer: mounted, its topic, and its data, connected and error states
    resumed,            \* history of SpecRetry: the transport connect() created after that, or NoTransport
    registered,         \* history: the <<event, callback>> pairs on() added and off() did not remove
    regOrder,           \* history: per event, the callbacks registered, oldest registration first
    removed             \* history: the pairs off() removed and on() did not add again

conn == <<ctorThrows, ws, readyState, established, connected, reconnectAttempts,
          reconnectTimer, heartbeatTimer, timeouts, intervals>>
regs == <<subscriptions, eventListeners, registered, regOrder, removed, nRegs>>
frames == <<messageQueue, written, nCalls, nPings, cleared>>
outs == <<lastOp, emitted, invoked, view, threw>>
hist == <<shutdown, closures, failedCount, scheduled, episodeCut, openedFrom, closeAsked>>
ceiling == <<gaveUp, resumed, autoConnects>>
single == <<wsClientInstance, managers>>
hooks == <<hookState>>
vars == <<conn, regs, frames, outs, hist, ceiling, single, hooks>>

\* What ran last: its name, the transport whose event it handled, the close
\* code, what _scheduleReconnect did in it, and its argument.
Op(name, t, code, sched, arg) ==
    [op |-> name, t |-> t, code |-> code, sched |-> sched, arg |-> arg]

Init ==
    /\ ctorThrows \in BOOLEAN
    /\ ws = NoTransport
    /\ readyState = [t \in Transports |-> "NONE"]
    /\ established = {}
    /\ connected = FALSE
    /\ reconnectAttempts = 0
    /\ reconnectTimer = NoTimer
    /\ heartbeatTimer = NoTimer
    /\ timeouts = {}
    /\ intervals = {}
    /\ subscriptions = {}
    /\ eventListeners = [e \in {} |-> <<>>]
    /\ messageQueue = <<>>
    /\ written = <<>>
    /\ lastOp = Op("constructor", NoTransport, 0, "none", Undefined)
    /\ emitted = <<>>
    /\ invoked = <<>>
    /\ view = <<>>
    /\ threw = "none"
    /\ nCalls = 0
    /\ nPings = 0
    /\ nRegs = 0
    /\ cleared = {}
    /\ shutdown = FALSE
    /\ closures = 0
    /\ failedCount = 0
    /\ scheduled = 0
    /\ episodeCut = FALSE
    /\ openedFrom = -1
    /\ closeAsked = {}
    /\ gaveUp = FALSE
    /\ autoConnects = 0
    /\ hookState = [c \in Consumers |-> Unmounted]
    /\ wsClientInstance = FALSE
    /\ managers = 0
    /\ resumed = NoTransport
    /\ registered = {}
    /\ regOrder = [e \in ListenEvents |-> <<>>]
    /\ removed = {}

\* ---------------------------------------------------------------- helpers
Min(a, b) == IF a < b THEN a ELSE b
Fresh(live) == CHOOSE i \in TimerIds : i \notin live /\ \A j \in TimerIds \ live : i <= j
Closing(state) == IF state \in {"CONNECTING", "OPEN"} THEN "CLOSING" ELSE state
NextTransport == 1 + Cardinality({t \in Transports : readyState[t] # "NONE"})

\* Variant of the handler below that catches nothing.
EmitCatchesNothing(cb) == FALSE

\* _emit, lines 273-277: each callback is called inside its own try block,
\* whose catch clause logs whatever the callback threw.
EmitCatches(cb) == TRUE

\* The place in the callbacks of an event of the first one whose exception
\* leaves _emit, or 0.
FirstEscape(L, event) ==
    IF event \in DOMAIN L
          /\ \E i \in 1..Len(L[event]) :
                L[event][i] \in ThrowingCallbacks /\ ~EmitCatches(L[event][i])
    THEN CHOOSE i \in 1..Len(L[event]) :
            /\ L[event][i] \in ThrowingCallbacks /\ ~EmitCatches(L[event][i])
            /\ \A j \in 1..(i - 1) :
                  ~(L[event][j] \in ThrowingCallbacks /\ ~EmitCatches(L[event][j]))
    ELSE 0

\* _emit(event, data): the calls it makes on the registry L, in the Set's
\* insertion order, up to a callback whose exception leaves it.
EmitCalls(L, event, data) ==
    IF event \in DOMAIN L
    THEN LET n == IF FirstEscape(L, event) = 0 THEN Len(L[event]) ELSE FirstEscape(L, event)
         IN [i \in 1..n |-> <<event, L[event][i], data>>]
    ELSE <<>>

\* The _emit calls of one handler, in order, up to one an exception leaves.
RECURSIVE Dispatch(_, _)
Dispatch(L, events) ==
    IF events = <<>> THEN <<>>
    ELSE IF FirstEscape(L, Head(events)[1]) # 0
    THEN EmitCalls(L, Head(events)[1], Head(events)[2])
    ELSE EmitCalls(L, Head(events)[1], Head(events)[2]) \o Dispatch(L, Tail(events))

EmitEscapes(L, events) == \E k \in 1..Len(events) : FirstEscape(L, events[k][1]) # 0

\* clearTimeout / clearInterval of a handle the manager holds.
Clear(handle, live) == IF handle # NoTimer THEN live \ {handle} ELSE live

\* Variant of the guard below that never sees a pending timer.
SchedulePendingNever(timer) == FALSE

\* _scheduleReconnect, line 239: a timer is already pending.
SchedulePending(timer) == timer # NoTimer

\* Variant of the payload below whose delay grows with the attempt.
ReconnectingDataBackoff(attempt) ==
    <<"attempt", ToString(attempt), "delay", ToString(ReconnectDelay * attempt)>>

\* _scheduleReconnect, lines 247 and 250: the payload of 'reconnecting', the
\* counter after its increment and the delay read from the configuration.
ReconnectingData(attempt) ==
    <<"attempt", ToString(attempt), "delay", ToString(ReconnectDelay)>>

\* Variant of the test below that never finds the counter at its ceiling.
AtCeilingNever(attempts) == FALSE

\* _scheduleReconnect, line 240: the counter has reached its ceiling.
AtCeiling(attempts) == attempts >= MaxReconnectAttempts

\* _scheduleReconnect, line 246: this.reconnectAttempts++.
NextAttempt(attempts) == attempts + 1

\* _scheduleReconnect: what it did, and the counter, handle, host timeouts and
\* events it leaves.
ScheduleReconnect(timer, attempts, live) ==
    IF SchedulePending(timer)
    THEN [outcome |-> "pending", attempts |-> attempts, timer |-> timer,
          live |-> live, events |-> <<>>]
    ELSE IF AtCeiling(attempts)
    THEN [outcome |-> "failed", attempts |-> attempts, timer |-> timer,
          live |-> live, events |-> << <<"reconnect_failed", Null>> >>]
    ELSE [outcome |-> "scheduled", attempts |-> NextAttempt(attempts), timer |-> Fresh(live),
          live |-> live \cup {Fresh(live)},
          events |-> << <<"reconnecting", ReconnectingData(NextAttempt(attempts))>> >>]

NotScheduled(timer, attempts, live) ==
    [outcome |-> "none", attempts |-> attempts, timer |-> timer, live |-> live,
     events |-> <<>>]

\* _startHeartbeat: the handle and the host's intervals it leaves.
StartHeartbeat(handle, live) ==
    [timer |-> Fresh(Clear(handle, live)),
     live |-> Clear(handle, live) \cup {Fresh(Clear(handle, live))}]

\* Variant of the test below that lets every tick send.
HeartbeatMaySendAlways(w, rs) == TRUE

\* The heartbeat callback's own test, line 264.
HeartbeatMaySend(w, rs) == w # NoTransport /\ rs[w] = "OPEN"

\* _send, line 229: written at once, or queued.
SendTarget(w, rs) == IF w # NoTransport /\ rs[w] = "OPEN" THEN "write" ELSE "queue"

\* Variant of the reset below that keeps the counter.
AttemptsOnOpenKept(attempts) == attempts

\* _handleOpen, line 171.
AttemptsOnOpen(attempts) == 0

\* _handleClose, line 198: whether the closure is to be followed by a retry.
RetryOnClose(code, attempts) == code # NormalClosure /\ attempts < MaxReconnectAttempts

\* The queue drain of _handleOpen, lines 174-177, on this.ws = w: each frame is
\* shifted off the queue and handed to w.send.  With no transport held the
\* first send raises a TypeError, on a transport still connecting an
\* InvalidStateError, and the frame shifted is gone; a transport that is
\* closing or closed takes the frames and drops them.
Drain(w, rs, queue) ==
    IF queue = <<>> THEN "empty"
    ELSE IF w = NoTransport THEN "TypeError"
    ELSE IF rs[w] = "CONNECTING" THEN "InvalidStateError"
    ELSE IF rs[w] = "OPEN" THEN "write"
    ELSE "drop"

\* ------------------------------------------------------ history bookkeeping
HistSchedule(outcome) ==
    /\ failedCount' = IF outcome = "failed" THEN Min(failedCount + 1, 2) ELSE failedCount
    /\ scheduled' = IF outcome = "scheduled" THEN scheduled + 1 ELSE scheduled

\* What every action reports of itself; the listeners are called as _emit
\* finds them in the registry L.
OutView(op, L, events, exc, v) ==
    /\ lastOp' = op
    /\ emitted' = events
    /\ invoked' = Dispatch(L, events)
    /\ view' = v
    /\ threw' = IF exc = "none" /\ EmitEscapes(L, events) THEN "Error" ELSE exc

Out(op, L, events, exc) == OutView(op, L, events, exc, <<>>)

\* A reconnect timer is about to be started: the host has an id to give.
TimerAvailable(timer, attempts, live) ==
    (~SchedulePending(timer) /\ attempts < MaxReconnectAttempts)
        => Cardinality(live) < MaxTimers

\* ------------------------------------------------------------- operations
\* Variant of the guard below that lets a transport still connecting be
\* superseded.
AlreadyOpenOnly(w, rs) == w # NoTransport /\ rs[w] = "OPEN"

\* connect(), line 33: the manager holds a transport that is connecting or open.
AlreadyConnecting(w, rs) == w # NoTransport /\ rs[w] \in {"CONNECTING", "OPEN"}

\* Variant of the catch clause below that reports nothing.
CtorFailureSilent(err) == <<>>

\* connect(), lines 47-49: what the catch clause emits for the exception of
\* new WebSocket.
CtorFailureEvents(err) == << <<"error", err>> >>

\* connect(), lines 32-52, entered with the reconnect handle and the host's
\* timeouts as the caller left them.
DoConnect(name, timer0, live0) ==
    IF AlreadyConnecting(ws, readyState)
    THEN /\ reconnectTimer' = timer0
         /\ timeouts' = live0
         /\ UNCHANGED <<ws, readyState, reconnectAttempts>>
         /\ Out(Op(name, NoTransport, 0, "none", Str("already")), eventListeners, <<>>, "none")
         /\ HistSchedule("none")
    ELSE IF ctorThrows
    THEN /\ TimerAvailable(timer0, reconnectAttempts, live0)
         /\ LET r == ScheduleReconnect(timer0, reconnectAttempts, live0)
            IN /\ reconnectAttempts' = r.attempts
               /\ reconnectTimer' = r.timer
               /\ timeouts' = r.live
               /\ UNCHANGED <<ws, readyState>>
               /\ Out(Op(name, NoTransport, 0, r.outcome, Str("threw")), eventListeners,
                      CtorFailureEvents(Str("SyntaxError")) \o r.events, "none")
               /\ HistSchedule(r.outcome)
    ELSE /\ NextTransport \in Transports
         /\ ws' = NextTransport
         /\ readyState' = [readyState EXCEPT ![NextTransport] = "CONNECTING"]
         /\ reconnectTimer' = timer0
         /\ timeouts' = live0
         /\ UNCHANGED reconnectAttempts
         /\ Out(Op(name, NextTransport, 0, "none", Str("created")), eventListeners, <<>>, "none")
         /\ HistSchedule("none")

\* connect() called by the application.
Connect ==
    /\ DoConnect("connect", reconnectTimer, timeouts)
    /\ shutdown' = FALSE
    /\ UNCHANGED <<ctorThrows, established, connected, heartbeatTimer, intervals>>
    /\ UNCHANGED <<regs, frames, closures, episodeCut, openedFrom, closeAsked>>

\* The reconnect timeout fires, lines 252-255.
ReconnectTimerFire(id) ==
    /\ id \in timeouts
    /\ DoConnect("reconnectTimer", NoTimer, timeouts \ {id})
    /\ UNCHANGED <<ctorThrows, established, connected, heartbeatTimer, intervals>>
    /\ UNCHANGED <<regs, frames, shutdown, closures, episodeCut, openedFrom, closeAsked>>

\* Variant of the assignment below that leaves the counter alone.
AttemptsOnDisconnectKept(attempts) == attempts

\* disconnect(), line 59.
AttemptsOnDisconnect(attempts) == MaxReconnectAttempts

\* disconnect(), lines 57-78.
DoDisconnect(name) ==
    /\ reconnectAttempts' = AttemptsOnDisconnect(reconnectAttempts)
    /\ timeouts' = Clear(reconnectTimer, timeouts)
    /\ reconnectTimer' = NoTimer
    /\ intervals' = Clear(heartbeatTimer, intervals)
    /\ heartbeatTimer' = NoTimer
    /\ readyState' = IF ws # NoTransport
                     THEN [readyState EXCEPT ![ws] = Closing(@)]
                     ELSE readyState
    /\ ws' = NoTransport
    /\ connected' = FALSE
    /\ Out(Op(name, ws, NormalClosure, "none",
              <<IF reconnectTimer # NoTimer THEN "clearTimeout" ELSE "",
                IF heartbeatTimer # NoTimer THEN "clearInterval" ELSE "">>),
           eventListeners, << <<"disconnected", Null>> >>, "none")
    /\ shutdown' = TRUE
    /\ episodeCut' = TRUE
    /\ closures' = 0
    /\ closeAsked' = IF ws # NoTransport THEN closeAsked \cup {ws} ELSE closeAsked
    /\ UNCHANGED <<ctorThrows, established, failedCount, scheduled, openedFrom>>

Disconnect ==
    /\ DoDisconnect("disconnect")
    /\ UNCHANGED <<regs, frames>>

\* Variant of the assignment below that keeps the queue.
QueueAfterCleanupKept(queue) == queue

\* cleanup(), line 295.
QueueAfterCleanup(queue) == <<>>

\* cleanup(), lines 291-296.
Cleanup ==
    /\ DoDisconnect("cleanup")
    /\ eventListeners' = [e \in {} |-> <<>>]
    /\ subscriptions' = {}
    /\ registered' = {}
    /\ regOrder' = [e \in ListenEvents |-> <<>>]
    /\ removed' = {}
    /\ messageQueue' = QueueAfterCleanup(messageQueue)
    /\ cleared' = cleared \cup {messageQueue[i].seq : i \in 1..Len(messageQueue)}
    /\ UNCHANGED <<nRegs, written, nCalls, nPings>>

\* Variant of the push below that skips a frame equal to one already queued.
EnqueueOnce(queue, frame) ==
    IF \E i \in 1..Len(queue) : queue[i].body = frame.body THEN queue ELSE Append(queue, frame)

\* _send, line 233: the frame is pushed onto the queue.
Enqueue(queue, frame) == Append(queue, frame)

\* _send, lines 226-236, for the message the operation called with args made.
DoSend(name, args, message) ==
    /\ nCalls < MaxCalls
    /\ LET frame == [seq |-> nCalls + 1, body |-> Stringify(message)]
       IN IF SendTarget(ws, readyState) = "write"
          THEN written' = Append(written, <<ws, frame>>) /\ UNCHANGED messageQueue
          ELSE messageQueue' = Enqueue(messageQueue, frame) /\ UNCHANGED written
    /\ nCalls' = nCalls + 1
    /\ Out(Op(name, ws, 0, "none", args), eventListeners, <<>>, "none")
    /\ UNCHANGED <<conn, regs, nPings, cleared, hist>>

Send(data) == DoSend("send", <<data>>, DataMessage(data))
Subscribe(topic, filter, interval) ==
    DoSend("subscribe", <<topic, filter, interval>>, SubscribeMessage(topic, filter, interval))
Unsubscribe(topic, filter) ==
    DoSend("unsubscribe", <<topic, filter>>, UnsubscribeMessage(topic, filter))

\* ------------------------------------------------------- transport events
\* onopen: the transport's connection is established, _handleOpen runs.
HandleOpen(t) ==
    /\ readyState[t] = "CONNECTING"
    /\ LET rs == [readyState EXCEPT ![t] = "OPEN"]
           d == Drain(ws, rs, messageQueue)
           ok == d \in {"empty", "write", "drop"}
           hb == StartHeartbeat(heartbeatTimer, intervals)
       IN /\ ok => Cardinality(Clear(heartbeatTimer, intervals)) < MaxTimers
          /\ readyState' = rs
          /\ established' = established \cup {t}
          /\ connected' = TRUE
          /\ reconnectAttempts' = AttemptsOnOpen(reconnectAttempts)
          /\ messageQueue' = IF ok THEN <<>> ELSE Tail(messageQueue)
          /\ written' = IF d = "write"
                        THEN written \o [i \in 1..Len(messageQueue) |-> <<ws, messageQueue[i]>>]
                        ELSE written
          /\ heartbeatTimer' = IF ok THEN hb.timer ELSE heartbeatTimer
          /\ intervals' = IF ok THEN hb.live ELSE intervals
          /\ Out(Op("handleOpen", t, 0, "none", Undefined), eventListeners,
                 IF ok THEN << <<"connected", Null>> >> ELSE <<>>,
                 IF ok THEN "none" ELSE d)
    /\ closures' = 0
    /\ failedCount' = 0
    /\ scheduled' = 0
    /\ episodeCut' = FALSE
    /\ openedFrom' = reconnectAttempts
    /\ UNCHANGED <<ctorThrows, ws, reconnectTimer, timeouts, regs, nCalls, nPings,
                   cleared, shutdown, closeAsked>>

\* Variant of the view below in which 'disconnected' is emitted before the
\* handler's assignments.
ViewBeforeAssignments(c, hb) == [connected |-> c, heartbeatTimer |-> hb]

\* _handleClose, lines 187-195: the connected flag and the heartbeat handle a
\* listener of 'disconnected' reads, whatever they were (c, hb) when the
\* handler started: the flag was assigned false at line 187 and the handle
\* null at line 192 before the emission of line 195.
ViewAtDisconnected(c, hb) == [connected |-> FALSE, heartbeatTimer |-> NoTimer]

\* _handleClose, lines 195-200: 'disconnected' with the close code is emitted
\* before _scheduleReconnect emits anything.
CloseEmissions(code, scheduleEvents) ==
    << <<"disconnected", <<"close", ToString(code)>> >> >> \o scheduleEvents

\* onclose with the event's code: _handleClose runs, lines 185-201.
HandleClose(t, code) ==
    /\ readyState[t] \in {"CONNECTING", "OPEN", "CLOSING"}
    /\ code \in ClosableWith(t, established)
    /\ RetryOnClose(code, reconnectAttempts)
         => TimerAvailable(reconnectTimer, reconnectAttempts, timeouts)
    /\ LET r == IF RetryOnClose(code, reconnectAttempts)
                THEN ScheduleReconnect(reconnectTimer, reconnectAttempts, timeouts)
                ELSE NotScheduled(reconnectTimer, reconnectAttempts, timeouts)
       IN /\ readyState' = [readyState EXCEPT ![t] = "CLOSED"]
          /\ connected' = FALSE
          /\ ws' = NoTransport
          /\ intervals' = Clear(heartbeatTimer, intervals)
          /\ heartbeatTimer' = NoTimer
          /\ reconnectAttempts' = r.attempts
          /\ reconnectTimer' = r.timer
          /\ timeouts' = r.live
          /\ OutView(Op("handleClose", t, code, r.outcome,
                        <<"handler", IF heartbeatTimer # NoTimer THEN "clearInterval" ELSE "">>),
                     eventListeners, CloseEmissions(code, r.events), "none",
                     ViewAtDisconnected(connected, heartbeatTimer))
          /\ HistSchedule(r.outcome)
    /\ closures' = IF code # NormalClosure
                   THEN Min(closures + 1, MaxReconnectAttempts + 1)
                   ELSE 0
    /\ closeAsked' = closeAsked \ {t}
    /\ UNCHANGED <<ctorThrows, established, regs, frames, shutdown, episodeCut, openedFrom>>

\* The events during whose emission by _handleClose a listener calls
\* disconnect(): 'disconnected' as the close event emits it (with the close
\* code, line 195), or 'reconnecting' (line 250).
DisconnectingAt == {"disconnected", "reconnecting"}

\* onclose while such a listener is registered: _handleClose runs, and
\* disconnect() runs to completion inside the emission at which the listener
\* is called.  Inside 'disconnected' it runs before the test of line 198,
\* which then finds the counter at its ceiling.  Inside 'reconnecting' it
\* runs after the counter was incremented and before line 252 stores the
\* handle of the timer it starts.
HandleCloseDisconnecting(t, code, at) ==
    /\ readyState[t] \in {"CONNECTING", "OPEN", "CLOSING"}
    /\ code \in ClosableWith(t, established)
    /\ at = "reconnecting" =>
          /\ RetryOnClose(code, reconnectAttempts)
          /\ ~SchedulePending(reconnectTimer)
          /\ Cardinality(timeouts) < MaxTimers
    /\ readyState' = [readyState EXCEPT ![t] = "CLOSED"]
    /\ connected' = FALSE
    /\ ws' = NoTransport
    /\ intervals' = Clear(heartbeatTimer, intervals)
    /\ heartbeatTimer' = NoTimer
    /\ IF at = "disconnected"
       THEN LET attempts == AttemptsOnDisconnect(reconnectAttempts)
                live == Clear(reconnectTimer, timeouts)
                r == IF RetryOnClose(code, attempts)
                     THEN ScheduleReconnect(NoTimer, attempts, live)
                     ELSE NotScheduled(NoTimer, attempts, live)
            IN /\ reconnectAttempts' = r.attempts
               /\ reconnectTimer' = r.timer
               /\ timeouts' = r.live
               /\ OutView(Op("handleClose", t, code, r.outcome, <<"listener", at>>),
                          eventListeners,
                          << <<"disconnected", <<"close", ToString(code)>> >>,
                             <<"disconnected", Null>> >> \o r.events, "none",
                          ViewAtDisconnected(connected, heartbeatTimer))
               /\ HistSchedule(r.outcome)
       ELSE LET r == ScheduleReconnect(reconnectTimer, reconnectAttempts, timeouts)
            IN /\ reconnectAttempts' = AttemptsOnDisconnect(r.attempts)
               /\ reconnectTimer' = r.timer
               /\ timeouts' = r.live
               /\ OutView(Op("handleClose", t, code, r.outcome, <<"listener", at>>),
                          eventListeners,
                          << <<"disconnected", <<"close", ToString(code)>> >> >> \o r.events
                             \o << <<"disconnected", Null>> >>, "none",
                          ViewAtDisconnected(connected, heartbeatTimer))
               /\ HistSchedule(r.outcome)
    /\ shutdown' = TRUE
    /\ episodeCut' = TRUE
    /\ closures' = 0
    /\ closeAsked' = closeAsked \ {t}
    /\ UNCHANGED <<ctorThrows, established, regs, frames, openedFrom>>

\* Variant of the emission below that also announces a disconnection.
ErrorEmissionsWithDisconnected(error) ==
    << <<"error", error>>, <<"disconnected", Null>> >>

\* _handleError, line 205: the one event it emits, with the error it was given.
ErrorEmissions(error) == << <<"error", error>> >>

\* onerror: _handleError runs, lines 203-206.
HandleError(t) ==
    /\ readyState[t] \in {"CONNECTING", "OPEN", "CLOSING"}
    /\ Out(Op("handleError", t, 0, "none", Undefined), eventListeners,
           ErrorEmissions(Str("Event")), "none")
    /\ UNCHANGED <<conn, regs, frames, hist>>

\* The peer starts the closing handshake: the transport's readyState is
\* CLOSING until its close event is delivered.  No handler runs.
TransportClosing(t) ==
    /\ readyState[t] = "OPEN"
    /\ readyState' = [readyState EXCEPT ![t] = "CLOSING"]
    /\ Out(Op("transportClosing", t, 0, "none", Undefined), eventListeners, <<>>, "none")
    /\ UNCHANGED <<ctorThrows, ws, established, connected, reconnectAttempts,
                   reconnectTimer, heartbeatTimer, timeouts, intervals>>
    /\ UNCHANGED <<regs, frames, hist>>

\* One tick of a running heartbeat interval, lines 263-267.
HeartbeatTick(id) ==
    /\ id \in intervals
    /\ IF HeartbeatMaySend(ws, readyState)
       THEN /\ nPings < MaxPings
            /\ nPings' = nPings + 1
            /\ LET frame == [seq |-> 0, body |-> Stringify(PingMessage)]
               IN IF SendTarget(ws, readyState) = "write"
                  THEN written' = Append(written, <<ws, frame>>) /\ UNCHANGED messageQueue
                  ELSE messageQueue' = Append(messageQueue, frame) /\ UNCHANGED written
       ELSE UNCHANGED <<messageQueue, written, nPings>>
    /\ Out(Op("heartbeat", ws, 0, "none", Undefined), eventListeners, <<>>, "none")
    /\ UNCHANGED <<conn, regs, nCalls, cleared, hist>>

\* ------------------------------------------------------------- listeners
\* Variant of the registration below that puts a new callback first.
AddListenerFirst(L, event, cb) ==
    IF event \in DOMAIN L
    THEN IF \E i \in 1..Len(L[event]) : L[event][i] = cb
         THEN L
         ELSE [L EXCEPT ![event] = <<cb>> \o @]
    ELSE [e \in DOMAIN L \cup {event} |-> IF e = event THEN <<cb>> ELSE L[e]]

\* Variant of the registration below that keeps every add, as a list would.
AddListenerAgain(L, event, cb) ==
    IF event \in DOMAIN L
    THEN [L EXCEPT ![event] = Append(@, cb)]
    ELSE [e \in DOMAIN L \cup {event} |-> IF e = event THEN <<cb>> ELSE L[e]]

\* on(event, callback), lines 117-123: the registry it leaves.  A Set keeps a
\* callback once, at the place of its first add.
AddListener(L, event, cb) ==
    IF event \in DOMAIN L
    THEN IF \E i \in 1..Len(L[event]) : L[event][i] = cb
         THEN L
         ELSE [L EXCEPT ![event] = Append(@, cb)]
    ELSE [e \in DOMAIN L \cup {event} |-> IF e = event THEN <<cb>> ELSE L[e]]

\* Variant of the removal below that leaves the last callback of an event.
RemoveListenerKeepsLast(L, event, cb) ==
    IF event \notin DOMAIN L THEN L
    ELSE LET rest == SelectSeq(L[event], LAMBDA c : c # cb)
         IN IF rest = <<>> THEN L ELSE [L EXCEPT ![event] = rest]

\* off(event, callback), lines 128-135: the registry it leaves.
RemoveListener(L, event, cb) ==
    IF event \notin DOMAIN L THEN L
    ELSE LET rest == SelectSeq(L[event], LAMBDA c : c # cb)
         IN IF rest = <<>>
            THEN [e \in DOMAIN L \ {event} |-> L[e]]
            ELSE [L EXCEPT ![event] = rest]

On(event, cb) ==
    /\ nRegs < MaxRegs
    /\ nRegs' = nRegs + 1
    /\ eventListeners' = AddListener(eventListeners, event, cb)
    /\ registered' = registered \cup {<<event, cb>>}
    /\ regOrder' = IF <<event, cb>> \in registered
                   THEN regOrder
                   ELSE [regOrder EXCEPT ![event] = Append(@, cb)]
    /\ removed' = removed \ {<<event, cb>>}
    /\ Out(Op("on", NoTransport, 0, "none", <<event, cb>>), eventListeners, <<>>, "none")
    /\ UNCHANGED <<conn, subscriptions, frames, hist>>

Off(event, cb) ==
    /\ eventListeners' = RemoveListener(eventListeners, event, cb)
    /\ registered' = registered \ {<<event, cb>>}
    /\ regOrder' = [regOrder EXCEPT ![event] = SelectSeq(@, LAMBDA c : c # cb)]
    /\ removed' = IF <<event, cb>> \in registered
                  THEN removed \cup {<<event, cb>>}
                  ELSE removed
    /\ Out(Op("off", NoTransport, 0, "none", <<event, cb>>), eventListeners, <<>>, "none")
    /\ UNCHANGED <<conn, subscriptions, nRegs, frames, hist>>

\* message.data || message, line 215.
EventData(message, data) == IF Truthy(data) THEN data ELSE message

\* Variant of the handler below that reports a frame it cannot read as an
\* error event.
InboundEventsReportsError(raw) ==
    IF raw[1] # "json" \/ raw[2] = Null THEN << <<"error", Str("SyntaxError")>> >>
    ELSE << <<"message", raw[2]>> >>

\* _handleMessage, lines 208-224: the events it emits for a frame.  Text that
\* does not parse, and the JSON null (whose .type cannot be read), raise
\* inside the try block: nothing is emitted.
InboundEvents(raw) ==
    IF raw[1] # "json" \/ raw[2] = Null THEN <<>>
    ELSE LET message == raw[2]
             type == IF message[1] = "object" THEN message[2] ELSE Undefined
             data == IF message[1] = "object" THEN message[3] ELSE Undefined
         IN (IF Truthy(type)
             THEN << <<type[2], EventData(message, data)>> >>
             ELSE <<>>) \o << <<"message", message>> >>

\* onmessage: a frame arrives on an open transport.
HandleMessage(t, raw) ==
    /\ readyState[t] = "OPEN"
    /\ Out(Op("handleMessage", t, 0, "none", raw), eventListeners, InboundEvents(raw), "none")
    /\ UNCHANGED <<conn, regs, frames, hist>>

\* --------------------------------------------------------------- singleton
\* The argument of getWebSocketClient: none (the parameter's default, null),
\* or a configuration object.
GetConfigs == {Null, <<"obj", "url">>}

\* The constructor, lines 9-17: its parameter defaults to {} only when it is
\* undefined, and config.url of null raises a TypeError.
ConstructorThrows(config) == config = Null

\* getWebSocketClient(config), lines 305-312.
GetWebSocketClient(config) ==
    IF wsClientInstance
    THEN /\ Out(Op("getWebSocketClient", NoTransport, 0, "none", Str("existing")),
                eventListeners, <<>>, "none")
         /\ UNCHANGED <<conn, regs, frames, hist, single>>
    ELSE IF ConstructorThrows(config)
    THEN /\ Out(Op("getWebSocketClient", NoTransport, 0, "none", Str("constructor threw")),
                eventListeners, <<>>, "TypeError")
         /\ UNCHANGED <<conn, regs, frames, hist, single>>
    ELSE /\ wsClientInstance' = TRUE
         /\ managers' = managers + 1
         /\ DoConnect("getWebSocketClient", reconnectTimer, timeouts)
         /\ UNCHANGED <<ctorThrows, established, connected, heartbeatTimer, intervals>>
         /\ UNCHANGED <<regs, frames, shutdown, closures, episodeCut, openedFrom, closeAsked>>

\* ------------------------------------------------------------------- hooks
\* useRealtime, lines 339-349: the callbacks of consumer c, one closure each.
HandleConnectedOf(c) == "handleConnected" \o c
HandleDisconnectedOf(c) == "handleDisconnected" \o c
HandleErrorOf(c) == "handleError" \o c
HandleUpdateOf(c) == "handleUpdate" \o c
\* Lines 351-355 and 365-369: the events they are registered for.
UpdateEvent(topic) == topic \o "_update"
HookListeners(c, topic) ==
    << <<"connected", HandleConnectedOf(c)>>, <<"disconnected", HandleDisconnectedOf(c)>>,
       <<"error", HandleErrorOf(c)>>, <<UpdateEvent(topic), HandleUpdateOf(c)>>,
       <<"initial_data", HandleUpdateOf(c)>> >>

RECURSIVE AddAll(_, _), RemoveAll(_, _), ApplyCalls(_, _)
AddAll(L, pairs) ==
    IF pairs = <<>> THEN L
    ELSE AddAll(AddListener(L, Head(pairs)[1], Head(pairs)[2]), Tail(pairs))
RemoveAll(L, pairs) ==
    IF pairs = <<>> THEN L
    ELSE RemoveAll(RemoveListener(L, Head(pairs)[1], Head(pairs)[2]), Tail(pairs))

\* Lines 339-349: what one call of a consumer's callback does to its states.
ApplyCall(h, call) ==
    [c \in Consumers |->
        IF call[2] = HandleUpdateOf(c) THEN [h[c] EXCEPT !.data = call[3], !.error = Null]
        ELSE IF call[2] = HandleConnectedOf(c) THEN [h[c] EXCEPT !.connected = TRUE]
        ELSE IF call[2] = HandleDisconnectedOf(c) THEN [h[c] EXCEPT !.connected = FALSE]
        ELSE IF call[2] = HandleErrorOf(c) THEN [h[c] EXCEPT !.error = call[3]]
        ELSE h[c]]
ApplyCalls(h, calls) ==
    IF calls = <<>> THEN h ELSE ApplyCalls(ApplyCall(h, Head(calls)), Tail(calls))

\* The consumers' states after the calls a handler's emissions made.
HookEffects == hookState' = ApplyCalls(hookState, invoked')

\* The effect of useRealtime(topic) runs for consumer c, lines 333-361.
\* getWebSocketClient() is called without argument: with no instance yet the
\* constructor raises and the effect ends there.
Mount(c, topic) ==
    /\ ~hookState[c].mounted
    /\ IF ~wsClientInstance
       THEN /\ Out(Op("mount", NoTransport, 0, "none", <<c, topic>>), eventListeners,
                   <<>>, "TypeError")
            /\ UNCHANGED <<conn, regs, frames, hist, single, hooks>>
       ELSE /\ nCalls < MaxHookCalls
            /\ eventListeners' = AddAll(eventListeners, HookListeners(c, topic))
            /\ LET frame == [seq |-> nCalls + 1,
                             body |-> Stringify(SubscribeMessage(Str(topic), HookFilter,
                                                                 HookInterval))]
               IN IF SendTarget(ws, readyState) = "write"
                  THEN written' = Append(written, <<ws, frame>>) /\ UNCHANGED messageQueue
                  ELSE messageQueue' = Enqueue(messageQueue, frame) /\ UNCHANGED written
            /\ nCalls' = nCalls + 1
            /\ hookState' = [hookState EXCEPT ![c] =
                                [mounted |-> TRUE, topic |-> topic, data |-> Null,
                                 connected |-> connected, error |-> Null]]
            /\ Out(Op("mount", ws, 0, "none", <<c, topic>>), eventListeners, <<>>, "none")
            /\ UNCHANGED <<conn, subscriptions, registered, regOrder, removed, nRegs,
                           nPings, cleared, hist, single>>

\* The cleanup of the effect runs for consumer c, lines 364-371.
Unmount(c) ==
    /\ hookState[c].mounted
    /\ nCalls < MaxHookCalls
    /\ eventListeners' = RemoveAll(eventListeners, HookListeners(c, hookState[c].topic))
    /\ LET frame == [seq |-> nCalls + 1,
                     body |-> Stringify(UnsubscribeMessage(Str(hookState[c].topic),
                                                           HookFilter))]
       IN IF SendTarget(ws, readyState) = "write"
          THEN written' = Append(written, <<ws, frame>>) /\ UNCHANGED messageQueue
          ELSE messageQueue' = Enqueue(messageQueue, frame) /\ UNCHANGED written
    /\ nCalls' = nCalls + 1
    /\ hookState' = [hookState EXCEPT ![c] = Unmounted]
    /\ Out(Op("unmount", ws, 0, "none", <<c, hookState[c].topic>>), eventListeners,
           <<>>, "none")
    /\ UNCHANGED <<conn, subscriptions, registered, regOrder, removed, nRegs,
                   nPings, cleared, hist, single>>

\* ---------------------------------------------------------- specifications
\* Every specification bounds its runs: the transports created and the
\* send-path calls made so far.
TransportsUsed(rs) == Cardinality({t \in Transports : rs[t] # "NONE"})
Within(nTransports, nSent) ==
    /\ TransportsUsed(readyState') <= nTransports
    /\ nCalls' <= nSent
    /\ UNCHANGED <<ceiling, single, hooks>>

\* The connection's life: every transport event and timer, connect() and
\* disconnect(), and send() for what an open finds queued.
InLife == Within(MaxTransports, MaxLifeCalls)
Next ==
    \/ Connect /\ InLife
    \/ Disconnect /\ InLife
    \/ \E data \in LifeData : Send(data) /\ InLife
    \/ \E id \in TimerIds : ReconnectTimerFire(id) /\ InLife
    \/ \E t \in Transports : HandleOpen(t) /\ InLife
    \/ \E t \in Transports, code \in CloseCodes : HandleClose(t, code) /\ InLife
    \/ \E t \in Transports : HandleError(t) /\ InLife
    \/ \E t \in Transports : TransportClosing(t) /\ InLife

Spec == Init /\ [][Next]_vars

\* The send path: every operation that produces a frame, and cleanup(), over
\* a shorter life of the connection.
InSend == Within(MaxSendTransports, MaxCalls)
NextSend ==
    \/ Connect /\ InSend
    \/ Disconnect /\ InSend
    \/ Cleanup /\ InSend
    \/ \E data \in SendData : Send(data) /\ InSend
    \/ \E topic \in Topics, filter \in Filters, interval \in Intervals :
          Subscribe(topic, filter, interval) /\ InSend
    \/ \E topic \in Topics, filter \in Filters : Unsubscribe(topic, filter) /\ InSend
    \/ \E id \in TimerIds : ReconnectTimerFire(id) /\ InSend
    \/ \E t \in Transports : HandleOpen(t) /\ InSend
    \/ \E t \in Transports, code \in CloseCodes : HandleClose(t, code) /\ InSend
    \/ \E t \in Transports : TransportClosing(t) /\ InSend

SpecSend == Init /\ [][NextSend]_vars

\* The heartbeat: the interval's ticks beside send() and the connection's life.
InBeat == Within(MaxSendTransports, MaxLifeCalls)
NextBeat ==
    \/ Connect /\ InBeat
    \/ Disconnect /\ InBeat
    \/ \E data \in LifeData : Send(data) /\ InBeat
    \/ \E id \in TimerIds : ReconnectTimerFire(id) /\ InBeat
    \/ \E id \in TimerIds : HeartbeatTick(id) /\ InBeat
    \/ \E t \in Transports : HandleOpen(t) /\ InBeat
    \/ \E t \in Transports, code \in CloseCodes : HandleClose(t, code) /\ InBeat
    \/ \E t \in Transports : TransportClosing(t) /\ InBeat

SpecBeat == Init /\ [][NextBeat]_vars

\* The listeners: on(), off() and the frames that arrive on the transports
\* that connect() and disconnect() open and shut.
InListen == Within(MaxListenTransports, 0)
NextListen ==
    \/ \E event \in ListenEvents, cb \in Callbacks : On(event, cb) /\ InListen
    \/ \E event \in ListenEvents, cb \in Callbacks : Off(event, cb) /\ InListen
    \/ \E t \in Transports, raw \in RawFrames : HandleMessage(t, raw) /\ InListen
    \/ Connect /\ InListen
    \/ Disconnect /\ InListen
    \/ \E t \in Transports : HandleOpen(t) /\ InListen

SpecListen == Init /\ [][NextListen]_vars

\* The subscriptions: subscribe() and unsubscribe() called again and again
\* over one connection, with a listener registered and retries pending.
InSubscribe == Within(MaxListenTransports, MaxCalls)
NextSubscribe ==
    \/ \E topic \in Topics, filter \in Filters, interval \in Intervals :
          Subscribe(topic, filter, interval) /\ InSubscribe
    \/ \E topic \in Topics, filter \in Filters : Unsubscribe(topic, filter) /\ InSubscribe
    \/ \E cb \in Callbacks : On("sensor_data_update", cb) /\ InSubscribe
    \/ Connect /\ InSubscribe
    \/ Disconnect /\ InSubscribe
    \/ \E id \in TimerIds : ReconnectTimerFire(id) /\ InSubscribe
    \/ \E t \in Transports : HandleOpen(t) /\ InSubscribe
    \/ \E t \in Transports, code \in CloseCodes : HandleClose(t, code) /\ InSubscribe

SpecSubscribe == Init /\ [][NextSubscribe]_vars

\* The retries: the closures, the timers and connect() over a run long enough
\* for the counter to reach its ceiling and for the application to connect
\* again after that.
\* What the step that was just taken means for the ceiling: a closure that
\* disconnect() did not ask for, with no timer pending and the counter raised
\* to its ceiling by retries alone, is left without a retry; an open or
\* disconnect() starts afresh; connect() may create a transport after it.
CeilingHistory ==
    /\ gaveUp' = IF /\ lastOp'.op = "handleClose"
                    /\ lastOp'.code # NormalClosure
                    /\ lastOp'.t \notin closeAsked
                    /\ ~episodeCut
                    /\ reconnectTimer = NoTimer
                    /\ reconnectAttempts >= MaxReconnectAttempts
                 THEN TRUE
                 ELSE IF lastOp'.op \in {"handleOpen", "disconnect"} THEN FALSE
                 ELSE gaveUp
    /\ resumed' = IF lastOp'.op = "connect" /\ gaveUp /\ ws' # ws THEN ws' ELSE resumed
    /\ autoConnects' = IF lastOp'.op = "reconnectTimer" /\ lastOp'.arg # Str("already")
                       THEN Min(autoConnects + 1, MaxReconnectAttempts + 1)
                       ELSE IF \/ lastOp'.op \in {"handleOpen", "connect", "disconnect"}
                               \/ lastOp'.op = "handleClose" /\ lastOp'.code = NormalClosure
                       THEN 0
                       ELSE autoConnects

InRetry ==
    /\ TransportsUsed(readyState') <= MaxRetryTransports
    /\ nCalls' = 0
    /\ CeilingHistory
    /\ UNCHANGED <<single, hooks>>
NextRetry ==
    \/ Connect /\ InRetry
    \/ Disconnect /\ InRetry
    \/ \E id \in TimerIds : ReconnectTimerFire(id) /\ InRetry
    \/ \E t \in Transports : HandleOpen(t) /\ InRetry
    \/ \E t \in Transports, code \in CloseCodes : HandleClose(t, code) /\ InRetry
    \/ \E t \in Transports : HandleError(t) /\ InRetry

SpecRetry == Init /\ [][NextRetry]_vars

\* The teardown: cleanup() of a client that has listeners, queued frames and
\* a connection.
InCleanup == Within(MaxListenTransports, MaxLifeCalls)
NextCleanup ==
    \/ Connect /\ InCleanup
    \/ Cleanup /\ InCleanup
    \/ \E data \in LifeData : Send(data) /\ InCleanup
    \/ \E cb \in Callbacks : On("disconnected", cb) /\ InCleanup
    \/ \E t \in Transports : HandleOpen(t) /\ InCleanup
    \/ \E t \in Transports, code \in CloseCodes : HandleClose(t, code) /\ InCleanup

SpecCleanup == Init /\ [][NextCleanup]_vars

\* The singleton: getWebSocketClient and cleanup() called by the hooks, and
\* the events of the instance's transports.
OfInstance == wsClientInstance /\ UNCHANGED single
InSingle ==
    /\ TransportsUsed(readyState') <= MaxSendTransports
    /\ nCalls' = 0
    /\ UNCHANGED <<ceiling, hooks>>
NextSingle ==
    \/ \E config \in GetConfigs : GetWebSocketClient(config) /\ InSingle
    \/ Cleanup /\ OfInstance /\ InSingle
    \/ Disconnect /\ OfInstance /\ InSingle
    \/ \E t \in Transports : HandleError(t) /\ OfInstance /\ InSingle
    \/ \E id \in TimerIds : ReconnectTimerFire(id) /\ OfInstance /\ InSingle
    \/ \E t \in Transports : HandleOpen(t) /\ OfInstance /\ InSingle
    \/ \E t \in Transports, code \in CloseCodes : HandleClose(t, code) /\ OfInstance /\ InSingle

SpecSingle == Init /\ [][NextSingle]_vars

\* The hooks: consumers mounted and unmounted on the singleton, and the frames
\* its transport receives.
InHooks ==
    /\ TransportsUsed(readyState') <= MaxListenTransports
    /\ UNCHANGED ceiling
NextHooks ==
    \/ \E config \in GetConfigs : GetWebSocketClient(config) /\ UNCHANGED hooks /\ InHooks
    \/ \E c \in Consumers, topic \in HookTopics : Mount(c, topic) /\ InHooks
    \/ \E c \in Consumers : Unmount(c) /\ InHooks
    \/ \E t \in Transports : HandleOpen(t) /\ OfInstance /\ HookEffects /\ InHooks
    \/ \E t \in Transports, raw \in HookFrames :
          HandleMessage(t, raw) /\ OfInstance /\ HookEffects /\ InHooks
    \/ \E t \in Transports, code \in CloseCodes :
          HandleClose(t, code) /\ OfInstance /\ HookEffects /\ InHooks

SpecHooks == Init /\ [][NextHooks]_vars

\* Re-entrance: close events handled while a listener that calls disconnect()
\* is registered, and the timers and opens that follow.
InReentrant == Within(MaxTransports, 0)
NextReentrant ==
    \/ Connect /\ InReentrant
    \/ \E id \in TimerIds : ReconnectTimerFire(id) /\ InReentrant
    \/ \E t \in Transports : HandleOpen(t) /\ InReentrant
    \/ \E t \in Transports, code \in CloseCodes : HandleClose(t, code) /\ InReentrant
    \/ \E t \in Transports, code \in CloseCodes, at \in DisconnectingAt :
          HandleCloseDisconnecting(t, code, at) /\ InReentrant

SpecReentrant == Init /\ [][NextReentrant]_vars

\* ================================================================= claims
IsPing(frame) == frame.body = Stringify(PingMessage)
Pings(log) == Len(SelectSeq(log, LAMBDA w : IsPing(w[2])))
WrittenCalls == {written[i][2].seq : i \in 1..Len(written)} \ {0}
CurrentOpen == ws # NoTransport /\ readyState[ws] \in {"OPEN", "CLOSING"}
Emits(events, event) == \E i \in 1..Len(events) : events[i][1] = event
RegistryPairs(L) == UNION {{<<e, L[e][i]>> : i \in 1..Len(L[e])} : e \in DOMAIN L}

\* C1: the frames of the calls made while no transport was open are written,
\* once a transport opens, in the order of the calls and before the frame of
\* any later call: the frames written are in call order, and after an open
\* every call made so far (and not discarded by cleanup()) has its frame
\* written.
C1_FifoReplay ==
    /\ \A i, j \in 1..Len(written) :
          (i < j /\ written[i][2].seq > 0 /\ written[j][2].seq > 0)
              => written[i][2].seq < written[j][2].seq
    /\ lastOp.op = "handleOpen" => (1..nCalls) \ cleared \subseteq WrittenCalls

\* C2: after disconnect(), and until the application calls connect(), no
\* reconnect timer is pending and no timer creates a transport.
C2_NoReconnectAfterDisconnect ==
    shutdown =>
        /\ reconnectTimer = NoTimer
        /\ timeouts = {}
        /\ ~(lastOp.op = "reconnectTimer" /\ lastOp.t # NoTransport)

\* C3: when the MaxReconnectAttempts-th unintentional closure in a row (no
\* open in between) has been handled, reconnect_failed was emitted exactly
\* once and no reconnect timer is pending.
C3_ReconnectFailedOnce ==
    (lastOp.op = "handleClose" /\ closures = MaxReconnectAttempts)
        => (failedCount = 1 /\ reconnectTimer = NoTimer)

\* C4: an open leaves the attempt counter at 0; from then on, until
\* disconnect() is called, the counter is the number of reconnections
\* scheduled since that open, so an unintentional closure is left without a
\* retry only after MaxReconnectAttempts of them were scheduled.
C4_OpenResetsAttempts ==
    /\ lastOp.op = "handleOpen" => reconnectAttempts = 0
    /\ (openedFrom >= 0 /\ ~episodeCut) =>
          /\ reconnectAttempts = scheduled
          /\ (lastOp.op = "handleClose" /\ lastOp.code # NormalClosure
                /\ lastOp.sched = "none") => scheduled = MaxReconnectAttempts

C4_Witness ==
    /\ openedFrom > 0
    /\ ~episodeCut
    /\ lastOp.op = "handleClose"
    /\ lastOp.sched = "scheduled"
    /\ scheduled = MaxReconnectAttempts

\* C5: every transport that is connecting or open is the one the manager
\* holds as this.ws (so there is at most one).
C5_OneLiveTransport ==
    \A t \in Transports : readyState[t] \in {"CONNECTING", "OPEN"} => t = ws

\* C6: between handlers the heartbeat timer exists exactly while the manager
\* holds a transport whose open event was delivered and whose close event was
\* not, and the host runs no interval but the one the manager holds.
C6_HeartbeatIffOpen ==
    /\ heartbeatTimer # NoTimer <=> CurrentOpen
    /\ intervals = IF heartbeatTimer # NoTimer THEN {heartbeatTimer} ELSE {}

\* C7: the host has at most one reconnect timeout pending, and it is the one
\* the manager holds; a _scheduleReconnect entered while it is pending leaves
\* the counter, the handle and the host's timeouts alone and emits no
\* reconnecting event.
C7_SingleReconnectTimer ==
    [][/\ timeouts' = IF reconnectTimer' # NoTimer THEN {reconnectTimer'} ELSE {}
       /\ lastOp'.sched = "pending" =>
             /\ reconnectTimer # NoTimer
             /\ reconnectAttempts' = reconnectAttempts
             /\ timeouts' = timeouts
             /\ ~Emits(emitted', "reconnecting")]_vars

C7_Witness ==
    /\ lastOp.op = "handleClose"
    /\ lastOp.sched = "pending"
    /\ reconnectTimer # NoTimer
    /\ reconnectAttempts < MaxReconnectAttempts

\* C8: no ping is ever in the outbound queue, and a ping is written only by a
\* heartbeat tick that finds the current transport open, to that transport.
C8_PingOnlyWhileOpen ==
    [][/\ \A i \in 1..Len(messageQueue') : ~IsPing(messageQueue'[i])
       /\ Pings(written') > Pings(written) =>
             /\ lastOp'.op = "heartbeat"
             /\ ws # NoTransport
             /\ readyState[ws] = "OPEN"
             /\ written' = Append(written, <<ws, [seq |-> 0, body |-> Stringify(PingMessage)]>>)]_vars

C8_Witness ==
    /\ lastOp.op = "heartbeat"
    /\ Pings(written) > 0
    /\ ws = NoTransport
    /\ \E t \in Transports : readyState[t] = "CLOSED"

\* C9: for a frame that parses to an object with a type T, the listeners of T
\* are called with the frame's data whenever the data key is present, with
\* the whole payload when it is absent, and then the listeners of 'message'
\* with the whole payload.
C9_DispatchData ==
    (/\ lastOp.op = "handleMessage"
     /\ lastOp.arg[1] = "json"
     /\ lastOp.arg[2][1] = "object"
     /\ lastOp.arg[2][2] # Undefined) =>
        LET message == lastOp.arg[2]
            data == IF message[3] # Undefined THEN message[3] ELSE message
        IN invoked = EmitCalls(eventListeners, message[2][2], data)
                         \o EmitCalls(eventListeners, "message", message)

\* C10: the calls an emission makes are of pairs on() added and off() did not
\* remove since; the registry holds exactly those pairs, and off() of a pair
\* that is not among them leaves the registry as it was.
C10_OffStopsDelivery ==
    [][/\ \A i \in 1..Len(invoked') : <<invoked'[i][1], invoked'[i][2]>> \in registered
       /\ RegistryPairs(eventListeners') = registered'
       /\ (lastOp'.op = "off" /\ registered' = registered)
             => eventListeners' = eventListeners]_vars

C10_Witness ==
    /\ lastOp.op \in {"handleMessage", "disconnect"}
    /\ invoked # <<>>
    /\ \E pair \in removed : Emits(emitted, pair[1])

\* The calls one emission makes when every callback registered for its event
\* is called once, oldest registration first.
CallsInOrder(order, ev) ==
    IF ev[1] \in DOMAIN order
    THEN [i \in 1..Len(order[ev[1]]) |-> <<ev[1], order[ev[1]][i], ev[2]>>]
    ELSE <<>>

\* C11: one emission of an event calls every callback registered for it
\* exactly once, in the order of their registration: the calls of a handler
\* are, emission after emission, the callbacks in registration order.
C11_RegistrationOrder ==
    [][invoked' =
          IF Len(emitted') = 0 THEN <<>>
          ELSE IF Len(emitted') = 1 THEN CallsInOrder(regOrder, emitted'[1])
          ELSE CallsInOrder(regOrder, emitted'[1]) \o CallsInOrder(regOrder, emitted'[2])]_vars

C11_Witness ==
    /\ lastOp.op = "handleMessage"
    /\ Len(invoked) >= 2
    /\ invoked[1][1] = invoked[2][1]
    /\ invoked[1][2] = "cb2"
    /\ invoked[2][2] = "cb1"

\* C12: a callback that throws stops nothing: every callback registered for
\* an emitted event is called, those after the one that threw and those of
\* the handler's later emissions included, and no exception of a callback
\* leaves the handler.
C12_ThrowingListener ==
    [][/\ threw' # "Error"
       /\ \A k \in 1..Len(emitted') :
             emitted'[k][1] \in DOMAIN eventListeners =>
                \A i \in 1..Len(eventListeners[emitted'[k][1]]) :
                   \E n \in 1..Len(invoked') :
                      invoked'[n] = <<emitted'[k][1], eventListeners[emitted'[k][1]][i],
                                      emitted'[k][2]>>]_vars

C12_Witness ==
    /\ lastOp.op = "handleMessage"
    /\ Len(emitted) = 2
    /\ emitted[1][1] # "message"
    /\ \E i, j, n \in 1..Len(invoked) :
          /\ i < j /\ j < n
          /\ invoked[i][1] = emitted[1][1] /\ invoked[i][2] \in ThrowingCallbacks
          /\ invoked[j][1] = emitted[1][1] /\ invoked[j][2] \notin ThrowingCallbacks
          /\ invoked[n][1] = "message"

\* C13: a frame that does not parse is dropped: the handler emits nothing,
\* calls no listener, raises nothing, and leaves the connection, the timers,
\* the counter, the queue and the registry as they were.
C13_MalformedDropped ==
    [][(lastOp'.op = "handleMessage" /\ lastOp'.arg[1] = "text") =>
          /\ emitted' = <<>>
          /\ invoked' = <<>>
          /\ threw' = "none"
          /\ UNCHANGED <<conn, regs, frames>>]_vars

C13_Witness ==
    /\ lastOp.op = "handleMessage"
    /\ lastOp.arg[1] = "text"
    /\ "message" \in DOMAIN eventListeners
    /\ connected

\* C14: when disconnect() returns the counter is at its ceiling, the manager
\* holds no reconnect and no heartbeat timer and the host runs none, the
\* transport it held was asked to close with code 1000 and is neither
\* connecting nor open nor current, isConnected() is false, and
\* 'disconnected' was emitted.
C14_DisconnectPostconditions ==
    [][lastOp'.op = "disconnect" =>
          /\ reconnectAttempts' = MaxReconnectAttempts
          /\ reconnectTimer' = NoTimer /\ timeouts' = {}
          /\ heartbeatTimer' = NoTimer /\ intervals' = {}
          /\ ws' = NoTransport
          /\ ws # NoTransport =>
                /\ ws \in closeAsked'
                /\ lastOp'.code = NormalClosure
                /\ readyState'[ws] \notin {"CONNECTING", "OPEN"}
          /\ ~connected'
          /\ emitted' = << <<"disconnected", Null>> >>
          /\ threw' = "none"]_vars

C14_Witness ==
    /\ lastOp.op = "disconnect"
    /\ lastOp.arg[1] = "clearTimeout"
    /\ lastOp.t # NoTransport
    /\ lastOp.t \notin established
    /\ readyState[lastOp.t] = "CLOSING"

\* C15: every close event of a transport that disconnect() did not close,
\* handled while the counter is below its ceiling, leaves a reconnection
\* scheduled, whatever its close code.
C15_OnlyDisconnectSuppresses ==
    [][(/\ lastOp'.op = "handleClose"
        /\ lastOp'.t \notin closeAsked
        /\ reconnectAttempts < MaxReconnectAttempts) =>
          /\ reconnectTimer' # NoTimer
          /\ lastOp'.sched \in {"scheduled", "pending"}]_vars

\* C16: connect() called while the manager holds a transport that is
\* connecting or open creates no transport, emits nothing, and leaves the
\* counter, the timers, the queue and the connection as they were.
C16_ConnectNoop ==
    [][(/\ lastOp'.op = "connect"
        /\ ws # NoTransport
        /\ readyState[ws] \in {"CONNECTING", "OPEN"}) =>
          /\ UNCHANGED <<ws, readyState, connected, reconnectAttempts, reconnectTimer,
                         heartbeatTimer, timeouts, intervals, messageQueue, written>>
          /\ emitted' = <<>>
          /\ invoked' = <<>>
          /\ threw' = "none"]_vars

C16_Witness ==
    /\ lastOp.op = "connect"
    /\ lastOp.arg = Str("already")
    /\ ws # NoTransport
    /\ readyState[ws] = "CONNECTING"
    /\ reconnectTimer # NoTimer
    /\ messageQueue # <<>>

\* C17: isConnected() is true exactly while the manager holds a transport
\* whose open event was delivered and whose close event was not.
C17_ConnectedIffOpen == connected <=> CurrentOpen

\* A step in which no timer outlives, and none fires after, a closure that
\* retries left without a retry.
NoAutomaticAttempt ==
    /\ gaveUp' => timeouts' = {}
    /\ gaveUp => lastOp'.op # "reconnectTimer"

\* A step in which the transport an explicit connect() created after the
\* ceiling was reached fails (closes, without having opened, with a code
\* other than 1000) and is retried.
ResumedIsRetried ==
    (/\ lastOp'.op = "handleClose"
     /\ resumed # NoTransport
     /\ lastOp'.t = resumed
     /\ lastOp'.t \notin established
     /\ lastOp'.t \notin closeAsked
     /\ lastOp'.code # NormalClosure) =>
        /\ lastOp'.sched = "scheduled"
        /\ reconnectTimer' # NoTimer

\* C18: once retries have raised the counter to its ceiling and a closure was
\* left without a retry, no connection attempt is made automatically; the
\* attempt an explicit connect() then starts is retried when it fails.
C18_ExplicitConnectResumes == [][NoAutomaticAttempt /\ ResumedIsRetried]_vars

\* The one frame of a call, with the given members, goes to the current
\* transport if it is open and to the end of the queue otherwise.
OneFrame(body) ==
    LET frame == [seq |-> nCalls', body |-> body]
    IN IF ws # NoTransport /\ readyState[ws] = "OPEN"
       THEN written' = Append(written, <<ws, frame>>) /\ messageQueue' = messageQueue
       ELSE messageQueue' = Append(messageQueue, frame) /\ written' = written

IsSubscribe(frame) == frame.body[1] = <<"type", Str("subscribe")>>

\* C19: subscribe and unsubscribe each produce one frame with the type and
\* the caller's topic, filter and interval, written at once to an open
\* transport and queued otherwise; a subscribe frame at the head of the queue
\* is the first frame the transport that opens is given.
C19_SubscribeFrames ==
    [][/\ lastOp'.op = "subscribe" =>
             OneFrame(<< <<"type", Str("subscribe")>>, <<"topic", lastOp'.arg[1]>>,
                         <<"filter", lastOp'.arg[2]>>, <<"interval", lastOp'.arg[3]>> >>)
       /\ lastOp'.op = "unsubscribe" =>
             OneFrame(<< <<"type", Str("unsubscribe")>>, <<"topic", lastOp'.arg[1]>>,
                         <<"filter", lastOp'.arg[2]>> >>)
       /\ (/\ lastOp'.op = "handleOpen"
           /\ messageQueue # <<>>
           /\ IsSubscribe(Head(messageQueue))) =>
             /\ Len(written') > Len(written)
             /\ written'[Len(written) + 1] = <<lastOp'.t, Head(messageQueue)>>]_vars

\* C20: after subscribe(topic, filter) the registry of subscriptions holds a
\* record for the key (topic, filter).
C20_SubscriptionRegistry ==
    lastOp.op = "subscribe" => <<lastOp.arg[1], lastOp.arg[2]>> \in subscriptions

\* C21: when cleanup() returns the listener registry, the subscription
\* registry and the queue are empty, the counter is at its ceiling, no timer
\* exists, no transport is current and isConnected() is false; a frame that
\* was in the queue when cleanup() ran is never given to a transport.
C21_CleanupPostconditions ==
    [][/\ lastOp'.op = "cleanup" =>
             /\ DOMAIN eventListeners' = {}
             /\ subscriptions' = {}
             /\ messageQueue' = <<>>
             /\ reconnectAttempts' = MaxReconnectAttempts
             /\ reconnectTimer' = NoTimer /\ timeouts' = {}
             /\ heartbeatTimer' = NoTimer /\ intervals' = {}
             /\ ws' = NoTransport
             /\ ~connected'
       /\ \A i \in 1..Len(written') : written'[i][2].seq \notin cleared']_vars

C21_Witness ==
    /\ lastOp.op = "handleOpen"
    /\ threw = "none"
    /\ cleared # {}
    /\ written = <<>>
    /\ DOMAIN eventListeners = {}

\* C22: when new WebSocket throws inside connect(), connect() raises nothing,
\* emits 'error' and then does what a retried closure does: with a timer
\* pending nothing more; below the ceiling the counter is incremented,
\* 'reconnecting' is emitted and a timer is started; at the ceiling
\* 'reconnect_failed' is emitted and no timer is started.
C22_CtorFailure ==
    [][(lastOp'.op \in {"connect", "reconnectTimer"} /\ lastOp'.arg = Str("threw")) =>
          LET timer0 == IF lastOp'.op = "reconnectTimer" THEN NoTimer ELSE reconnectTimer
          IN /\ threw' = "none"
             /\ ws' = ws /\ readyState' = readyState
             /\ Len(emitted') >= 1 /\ emitted'[1][1] = "error"
             /\ IF timer0 # NoTimer
                THEN /\ Len(emitted') = 1
                     /\ reconnectAttempts' = reconnectAttempts
                     /\ reconnectTimer' = timer0
                ELSE IF reconnectAttempts < MaxReconnectAttempts
                THEN /\ Len(emitted') = 2 /\ emitted'[2][1] = "reconnecting"
                     /\ reconnectAttempts' = reconnectAttempts + 1
                     /\ reconnectTimer' # NoTimer
                     /\ timeouts' = {reconnectTimer'}
                ELSE /\ Len(emitted') = 2 /\ emitted'[2][1] = "reconnect_failed"
                     /\ reconnectAttempts' = reconnectAttempts
                     /\ reconnectTimer' = NoTimer
                     /\ timeouts' = {}]_vars

C22_Witness ==
    /\ lastOp.op = "reconnectTimer"
    /\ lastOp.arg = Str("threw")
    /\ lastOp.sched = "failed"
    /\ Emits(emitted, "reconnect_failed")

\* C23: getWebSocketClient, with or without an argument, raises nothing; the
\* first call constructs the one manager and calls connect() on it, every
\* later call constructs none and creates no transport.
C23_Singleton ==
    [][lastOp'.op = "getWebSocketClient" =>
          /\ threw' = "none"
          /\ wsClientInstance'
          /\ managers' = 1
          /\ IF wsClientInstance
             THEN UNCHANGED <<managers, ws, readyState, reconnectTimer, timeouts>>
             ELSE lastOp'.arg \in {Str("created"), Str("threw")}]_vars

\* C24: when a listener called disconnect() inside the emission of a close
\* handler, no reconnect timer is pending once the handler has finished, and
\* until the application calls connect() no timer creates a transport.
C24_DisconnectFromListener ==
    /\ (lastOp.op = "handleClose" /\ lastOp.arg[1] = "listener") =>
          (reconnectTimer = NoTimer /\ timeouts = {})
    /\ shutdown => ~(lastOp.op = "reconnectTimer" /\ lastOp.t # NoTransport)

\* C25: the close event of a transport that is not the current one leaves the
\* current transport, the connected flag, the heartbeat timer and the counter
\* as they were and schedules no reconnection.
C25_StaleCloseIgnored ==
    [][(/\ lastOp'.op = "handleClose"
        /\ ws # NoTransport
        /\ lastOp'.t # ws) =>
          /\ UNCHANGED <<ws, connected, heartbeatTimer, intervals, reconnectAttempts,
                         reconnectTimer, timeouts>>
          /\ lastOp'.sched = "none"]_vars

\* C26: the open handler finds the transport that opened held as current and
\* gives it every queued frame, raising nothing; between handlers the queue
\* is empty while the current transport is open.
C26_DrainCannotFail ==
    [][/\ lastOp'.op = "handleOpen" =>
             /\ ws = lastOp'.t
             /\ threw' = "none"
             /\ written' = written \o [i \in 1..Len(messageQueue) |->
                                          <<lastOp'.t, messageQueue[i]>>]
       /\ (ws' # NoTransport /\ readyState'[ws'] = "OPEN") => messageQueue' = <<>>]_vars

C28_DisconnectedFirst ==
    [][lastOp'.op = "handleClose" /\ lastOp'.arg[1] = "handler" =>
          /\ emitted'[1] = <<"disconnected", <<"close", ToString(lastOp'.code)>> >>
          /\ \A i \in 1..Len(emitted') :
                /\ emitted'[i][1] = "reconnecting" => i > 1
                /\ emitted'[i][1] = "disconnected" => i = 1
          /\ \A i, j \in 1..Len(invoked') :
                (invoked'[i][1] = "disconnected" /\ invoked'[j][1] = "reconnecting")
                   => i < j
          /\ view' = [connected |-> FALSE, heartbeatTimer |-> NoTimer]
          /\ heartbeatTimer \notin intervals']_vars

\* An open transport with its heartbeat running closed abnormally and a
\* reconnection was announced.
C28_Witness ==
    /\ lastOp.op = "handleClose"
    /\ lastOp.arg = <<"handler", "clearInterval">>
    /\ lastOp.code # NormalClosure
    /\ Len(emitted) = 2
    /\ emitted[2][1] = "reconnecting"

\* C29: a transport error event leaves the current transport, the connected
\* flag, the counter, both timers, the queue, the frames written and the
\* registries as they were, and emits 'error' and nothing else.
C29_ErrorChangesNothing ==
    [][lastOp'.op = "handleError" =>
          /\ UNCHANGED <<ws, readyState, connected, reconnectAttempts, reconnectTimer,
                         heartbeatTimer, timeouts, intervals, messageQueue, written,
                         subscriptions, eventListeners>>
          /\ Len(emitted') = 1
          /\ emitted'[1][1] = "error"
          /\ \A i \in 1..Len(invoked') : invoked'[i][1] = "error"
          /\ threw' = "none"]_vars

\* An error event was delivered by the current, open transport while its
\* heartbeat was running.
C29_Witness ==
    /\ lastOp.op = "handleError"
    /\ lastOp.t = ws
    /\ readyState[ws] = "OPEN"
    /\ heartbeatTimer # NoTimer

\* C30: every call of subscribe, a repeated one included, adds exactly one
\* subscribe frame with the caller's topic and filter to the frames written
\* or to the queue, keeps the frames of the earlier calls, and leaves the
\* subscription registry, the listener registry, the counter, the timers and
\* the connection as they were.
C30_SubscribeTwice ==
    [][lastOp'.op = "subscribe" =>
          /\ Len(written') + Len(messageQueue') = Len(written) + Len(messageQueue) + 1
          /\ SubSeq(written', 1, Len(written)) = written
          /\ SubSeq(messageQueue', 1, Len(messageQueue)) = messageQueue
          /\ LET frame == IF Len(written') > Len(written)
                          THEN written'[Len(written')][2]
                          ELSE messageQueue'[Len(messageQueue')]
             IN /\ IsSubscribe(frame)
                /\ frame.body[2] = <<"topic", lastOp'.arg[1]>>
                /\ frame.body[3] = <<"filter", lastOp'.arg[2]>>
          /\ UNCHANGED <<subscriptions, eventListeners, reconnectAttempts, reconnectTimer,
                         heartbeatTimer, timeouts, intervals, ws, readyState, connected>>]_vars

\* subscribe was called a second time with the same arguments while the
\* frame of the first call was still queued, with a listener registered.
C30_Witness ==
    /\ lastOp.op = "subscribe"
    /\ Len(messageQueue) = 2
    /\ IsSubscribe(messageQueue[1])
    /\ messageQueue[1].body = messageQueue[2].body
    /\ DOMAIN eventListeners # {}

\* The calls of callback cb for event among the calls made.
CallsOf(calls, event, cb) ==
    Len(SelectSeq(calls, LAMBDA c : c[1] = event /\ c[2] = cb))
EmissionsOf(events, event) == Len(SelectSeq(events, LAMBDA e : e[1] = event))

\* C31: on() of a pair the registry already holds leaves the registry as it
\* was, the order of the callbacks included; one emission calls a callback at
\* most once; after off() of a pair the registry does not hold it.
C31_OnIdempotent ==
    [][/\ (lastOp'.op = "on" /\ <<lastOp'.arg[1], lastOp'.arg[2]>> \in RegistryPairs(eventListeners))
             => eventListeners' = eventListeners
       /\ \A pair \in RegistryPairs(eventListeners) :
             CallsOf(invoked', pair[1], pair[2]) = EmissionsOf(emitted', pair[1])
       /\ lastOp'.op = "off"
             => <<lastOp'.arg[1], lastOp'.arg[2]>> \notin RegistryPairs(eventListeners')]_vars

\* A callback registered twice for 'message', and never removed, was called by
\* the one emission of 'message' an inbound frame made.
C31_Witness ==
    /\ lastOp.op = "handleMessage"
    /\ nRegs = 2
    /\ registered = {<<"message", "cb1">>}
    /\ removed = {}
    /\ EmissionsOf(emitted, "message") = 1
    /\ CallsOf(invoked, "message", "cb1") = 1

\* The events the manager emits for its own transitions.
LifecycleEvents == {"connected", "disconnected", "reconnecting", "reconnect_failed", "error"}

\* C32: an inbound frame calls no listener of a lifecycle event, and calls
\* each listener of 'message' once.
C32_LifecycleReserved ==
    lastOp.op = "handleMessage" =>
        /\ \A i \in 1..Len(invoked) : invoked[i][1] \notin LifecycleEvents
        /\ \A cb \in Callbacks : CallsOf(invoked, "message", cb) <= 1

\* C33: disconnect() of an open connection has emitted 'disconnected'; the
\* close event of the transport it closed, arriving later, does not emit
\* 'disconnected' a second time.
C33_DisconnectedOnce ==
    [][(/\ lastOp'.op = "handleClose"
        /\ lastOp'.t \in closeAsked
        /\ lastOp'.t \in established) =>
          ~Emits(emitted', "disconnected")]_vars

\* C34: the attempt counter is always between 0 and MaxReconnectAttempts,
\* and only an open or disconnect() (cleanup() calls it) may lower it.
C34_CounterRange ==
    [][/\ reconnectAttempts' \in 0..MaxReconnectAttempts
       /\ lastOp'.op \notin {"handleOpen", "disconnect", "cleanup"}
             => reconnectAttempts' >= reconnectAttempts]_vars

\* After an open the retries raised the counter to its ceiling, and one more
\* abnormal closure left it there.
C34_Witness ==
    /\ openedFrom >= 0
    /\ ~episodeCut
    /\ lastOp.op = "handleClose"
    /\ lastOp.code # NormalClosure
    /\ lastOp.sched = "none"
    /\ reconnectTimer = NoTimer
    /\ reconnectAttempts = MaxReconnectAttempts

\* C35: in a run of abnormal closures without an open, disconnect() or
\* connect() by the application, the timers make at most MaxReconnectAttempts connection
\* attempts (calls of connect() that go past its guard), and after that many
\* no timer is pending: retrying has stopped.
C35_RetryTerminates ==
    /\ autoConnects <= MaxReconnectAttempts
    /\ autoConnects = MaxReconnectAttempts => (reconnectTimer = NoTimer /\ timeouts = {})

\* C36: disconnect() leaves the queue and the listener registry as they were,
\* and the first open after a disconnect() gives the transport that opened
\* every queued frame, in order.
C36_DisconnectKeepsQueue ==
    [][/\ lastOp'.op = "disconnect" =>
             UNCHANGED <<messageQueue, eventListeners, written>>
       /\ (lastOp'.op = "handleOpen" /\ episodeCut) =>
             /\ messageQueue' = <<>>
             /\ written' = written \o [i \in 1..Len(messageQueue) |->
                                          <<lastOp'.t, messageQueue[i]>>]]_vars

\* C37: no call's frame is written twice, and the frame of every call is
\* either written, or still queued, or was discarded by cleanup().
C37_AtMostOnce ==
    /\ \A i, j \in 1..Len(written) :
          (i # j /\ written[i][2].seq > 0) => written[i][2].seq # written[j][2].seq
    /\ \A i \in 1..Len(messageQueue) : messageQueue[i].seq \notin WrittenCalls
    /\ \A n \in 1..nCalls :
          \/ n \in WrittenCalls
          \/ \E i \in 1..Len(messageQueue) : messageQueue[i].seq = n
          \/ n \in cleared

\* C38: the cleanup of a consumer sends or queues an unsubscribe frame for
\* its key only when no other consumer of that key is still mounted.
C38_UnsubscribeWhenLast ==
    [][lastOp'.op = "unmount" =>
          \A c \in Consumers :
             hookState'[c].mounted => hookState'[c].topic # lastOp'.arg[2]]_vars

\* C39: with consumers of two topics mounted, an inbound frame changes the
\* data of a consumer only when it is the update event of the consumer's topic or an initial snapshot with
\* the data of that topic.
C39_OwnTopicOnly ==
    [][lastOp'.op = "handleMessage" =>
          \A c \in Consumers :
             (/\ hookState[c].mounted
              /\ \E d \in Consumers :
                    hookState[d].mounted /\ hookState[d].topic # hookState[c].topic
              /\ hookState'[c].data # hookState[c].data) =>
                LET message == lastOp'.arg[2]
                IN \/ message[2] = Str(UpdateEvent(hookState[c].topic))
                   \/ /\ message[2] = Str("initial_data")
                      /\ message[3] = <<"obj", hookState[c].topic>>]_vars

====
